---- MODULE Spec2Model ----
(***************************************************************************)
(* Model of kolibri/content/utils/channel_import.py: the schema-version    *)
(* aware channel import (version dispatch, per-row / per-table mappings,   *)
(* tree id allocation, batched writes under one destination transaction).  *)
(***************************************************************************)
EXTENDS Integers, Sequences, FiniteSets, TLC

VARIABLES
    tree_ids,    \* argument list of the tree id search (SpecTree)
    found,       \* result of the tree id search, 0 while not computed (SpecTree)
    committed,   \* destination store: committed contents, one row list per model
    session,     \* destination.session of each engine: its transaction's view
    eng,         \* the import manager objects (ChannelImport instances)
    licenses,    \* NoVersionChannelImport.licenses (class attribute)
    imports,     \* number of calls of initialize_import_manager so far
    args,        \* arguments of a function applied on its own (SpecLocalFile, SpecMapper)
    result       \* what that function returned, <<>> while not applied

treeVars == <<tree_ids, found, args, result>>
mainVars == <<committed, session, eng, licenses, imports>>
vars == <<tree_ids, found, committed, session, eng, licenses, imports, args, result>>

(***************************************************************************)
(* Bounds of the model.                                                    *)
(***************************************************************************)
\* largest tree id drawn for the argument of the tree id search
MaxTreeId == 7
\* number of import managers constructed in one behaviour
MaxImports == 2
\* number of import managers alive at the same time
MaxEngines == 2
\* largest number of File rows handed to generate_local_file_from_file on
\* its own
MaxFiles == 4
\* the flush threshold of table_import (10000 in the source, line 215),
\* scaled down so that a table larger than the threshold is explored
FlushThreshold == 2

(***************************************************************************)
(* Generic helpers.                                                        *)
(***************************************************************************)
\* Python's None, and a value that is not None
None == <<>>
Some(v) == <<v>>

Min(S) == CHOOSE x \in S : \A y \in S : x <= y

RECURSIVE SortedSeq(_)
\* sorted(...) of a finite set of integers
SortedSeq(S) ==
    IF S = {} THEN <<>>
    ELSE LET m == Min(S) IN <<m>> \o SortedSeq(S \ {m})

Range(s) == {s[i] : i \in 1..Len(s)}

(***************************************************************************)
(* ChannelImport.find_unique_tree_id (lines 101-131).  Python lists are    *)
(* indexed from 0: At(ids, i) is ids[i].                                   *)
(***************************************************************************)
At(ids, i) == ids[i + 1]

RECURSIVE find_hole_in_list(_)
find_hole_in_list(ids) ==
    LET last == Len(ids) - 1
        middle == (last \div 2) + 1
    IN  IF At(ids, middle) - At(ids, 0) # middle
        THEN IF middle = 1
             THEN At(ids, 0) + 1
             ELSE find_hole_in_list(SubSeq(ids, 1, middle))
        ELSE IF At(ids, last) - At(ids, middle) # last - middle
        THEN IF last - middle = 1
             THEN At(ids, middle) + 1
             ELSE find_hole_in_list(SubSeq(ids, middle + 1, Len(ids)))
        ELSE At(ids, Len(ids) - 1) + 1

\* find_unique_tree_id without the search of lines 103-131
find_unique_tree_id_first(ids) == 1

find_unique_tree_id(ids) ==
    IF Len(ids) = 0 THEN 1
    ELSE IF Len(ids) = 1
    THEN IF At(ids, 0) = 1 THEN 2 ELSE 1
    ELSE find_hole_in_list(ids)

(***************************************************************************)
(* SpecTree: the tree id search applied to every sorted list of distinct   *)
(* positive integers up to MaxTreeId.                                      *)
(***************************************************************************)
SortedDistinctLists == {SortedSeq(S) : S \in SUBSET (1..MaxTreeId)}

MinAbsent(ids) == Min({n \in 1..(MaxTreeId + 1) : n \notin Range(ids)})

(***************************************************************************)
(* Schema versions (imported from kolibri.content.models, lines 14-24).    *)
(* A version is a Python string, modelled as the sequence of its           *)
(* characters.                                                             *)
(***************************************************************************)
V020BETA1 == <<"v", "0", ".", "2", ".", "0", "-", "b", "e", "t", "a", "1">>
V040BETA3 == <<"v", "0", ".", "4", ".", "0", "-", "b", "e", "t", "a", "3">>
NO_VERSION == <<"u", "n", "v", "e", "r", "s", "i", "o", "n", "e", "d">>
VERSION_1 == <<"1">>
VERSION_2 == <<"2">>
CONTENT_SCHEMA_VERSION == VERSION_2

\* the version-to-strategy table (lines 352-358)
mappings ==
    [v \in {V020BETA1, V040BETA3, NO_VERSION, VERSION_1, VERSION_2} |->
        IF v \in {VERSION_1, VERSION_2}
        THEN "ChannelImport" ELSE "NoVersionChannelImport"]

\* dict.get(key): the value, or None for a missing key; it never raises
DictGet(d, key) ==
    [raised |-> "", value |-> IF key \in DOMAIN d THEN Some(d[key]) ELSE None]

Digits == <<"0", "1", "2", "3", "4", "5", "6", "7", "8", "9">>
IsDigit(c) == \E d \in 1..10 : Digits[d] = c
DigitValue(c) == (CHOOSE d \in 1..10 : Digits[d] = c) - 1

RECURSIVE DigitsValue(_)
DigitsValue(s) ==
    IF Len(s) = 0 THEN 0
    ELSE 10 * DigitsValue(SubSeq(s, 1, Len(s) - 1)) + DigitValue(s[Len(s)])

\* int(str): an optional sign and at least one decimal digit, else ValueError
PyInt(s) ==
    LET signed == Len(s) > 0 /\ s[1] \in {"-", "+"}
        body == IF signed THEN Tail(s) ELSE s
    IN  IF Len(body) = 0 \/ \E i \in 1..Len(body) : ~IsDigit(body[i])
        THEN [raised |-> "ValueError", value |-> 0]
        ELSE [raised |-> "",
              value |-> IF signed /\ s[1] = "-"
                        THEN 0 - DigitsValue(body) ELSE DigitsValue(body)]

\* the handler of KeyError in initialize_import_manager (lines 376-391): the
\* exception it raises, or "" when it falls through
KeyErrorHandler(min_version) ==
    LET n == PyInt(min_version)
    IN  IF n.raised = "ValueError" THEN "InvalidSchemaVersionError"
        ELSE IF n.value > PyInt(CONTENT_SCHEMA_VERSION).value
        THEN "FutureSchemaError"
        ELSE IF n.value < PyInt(CONTENT_SCHEMA_VERSION).value
        THEN "InvalidSchemaVersionError"
        ELSE ""

\* lines 372-392 up to the constructor call: the class to instantiate, or the
\* exception raised.  ImportClass stays unbound when the handler falls through
\* (UnboundLocalError); calling None raises TypeError.
ResolveImportClass(min_version) ==
    LET got == DictGet(mappings, min_version)
    IN  IF got.raised = "KeyError"
        THEN LET err == KeyErrorHandler(min_version)
             IN  [raised |-> IF err = "" THEN "UnboundLocalError" ELSE err,
                  cls |-> "None"]
        ELSE IF got.value = None
        THEN [raised |-> "TypeError", cls |-> "None"]
        ELSE [raised |-> "", cls |-> got.value[1]]

(***************************************************************************)
(* The content app's models and the destination tables.                    *)
(***************************************************************************)
\* self.content_models (line 88): the models of the content app, auto-created
\* many-to-many tables included, in declaration order
content_models ==
    <<"ContentNode", "ContentNode_tags", "File", "LocalFile", "ChannelMetadata">>

\* lines 31-35
merge_models == {"ContentTag", "LocalFile", "Language"}

\* a column object of a destination table
Column(name, primary_key, python_type) ==
    [name |-> name, autoincrement |-> "auto", primary_key |-> primary_key,
     python_type |-> python_type]

\* DestinationRecord.__table__.columns of each model, in table order
dest_table ==
    [ContentNode |->
        <<Column("id", TRUE, "str"), Column("tree_id", FALSE, "int"),
          Column("title", FALSE, "str"), Column("license_name", FALSE, "str"),
          Column("license_description", FALSE, "str"),
          Column("channel_id", FALSE, "str"), Column("available", FALSE, "bool")>>,
     ContentNode_tags |->
        <<Column("id", TRUE, "int"), Column("contentnode_id", FALSE, "str"),
          Column("contenttag_id", FALSE, "str")>>,
     File |->
        <<Column("id", TRUE, "str"), Column("contentnode_id", FALSE, "str"),
          Column("local_file_id", FALSE, "str"), Column("available", FALSE, "bool")>>,
     LocalFile |->
        <<Column("id", TRUE, "str"), Column("extension", FALSE, "str"),
          Column("file_size", FALSE, "int"), Column("available", FALSE, "bool")>>,
     ChannelMetadata |->
        <<Column("id", TRUE, "str"), Column("name", FALSE, "str"),
          Column("version", FALSE, "int"),
          Column("min_schema_version", FALSE, "str"),
          Column("root_id", FALSE, "str"),
          Column("last_updated", FALSE, "datetime")>>]

\* the test of lines 37-41 letting every column through
column_never_auto_integer_pk(column) == TRUE

\* lines 37-41
column_not_auto_integer_pk(column) ==
    ~(column.autoincrement = "auto" /\ column.primary_key
      /\ column.python_type = "int")

\* line 199: the names of the columns table_import writes, in table order
WritableColumns(model) ==
    LET keep == SelectSeq(dest_table[model], column_not_auto_integer_pk)
    IN  [i \in 1..Len(keep) |-> keep[i].name]

\* the name of the integer primary key the store assigns itself, if any
AutoPk(model) ==
    {dest_table[model][i].name : i \in
        {j \in 1..Len(dest_table[model]) :
            ~column_not_auto_integer_pk(dest_table[model][j])}}

EmptyTables == [m \in Range(content_models) |-> <<>>]

(***************************************************************************)
(* Source snapshots (content database files).  A table is a record of its  *)
(* column names and its rows; a row maps the columns whose value is not    *)
(* NULL to their values.  A table the file does not define is not in the   *)
(* domain of tables.                                                       *)
(***************************************************************************)
Channels == {"c1", "c2"}

NodeId(ch, i) == <<ch, "n", i>>
FileId(ch, j) == <<ch, "f", j>>
Checksum(j) == IF j % 2 = 1 THEN "k1" ELSE "k2"

\* [c1 |-> v1, ...] without the columns whose value is None
Row(cols, vals) ==
    [c \in {cols[i] : i \in {j \in 1..Len(cols) : vals[j] # None}} |->
        vals[CHOOSE i \in 1..Len(cols) : cols[i] = c][1]]

Table(cols, rows) == [columns |-> Range(cols), rows |-> rows]

\* ContentNode of a snapshot in the current schema
NodeTable(p) ==
    LET cols == <<"id", "tree_id", "title", "license_name",
                  "license_description", "channel_id", "available">>
    IN  Table(cols,
            [i \in 1..p.nodes |->
                Row(cols, <<Some(NodeId(p.ch, i)), Some(1),
                            IF p.v = "b" /\ i = 1 THEN None ELSE Some("title"),
                            Some("CC-BY"), Some("by"), Some(p.ch),
                            Some(FALSE)>>)])

\* ContentNode of a snapshot made before schema versions
OldNodeTable(p) ==
    LET cols == <<"id", "tree_id", "title", "license_id", "available">>
    IN  Table(cols,
            [i \in 1..p.nodes |->
                Row(cols, <<Some(NodeId(p.ch, i)), Some(1), Some("title"),
                            IF i = 2 THEN None ELSE Some(1), Some(TRUE)>>)])

\* the License table of an old snapshot: the same id names another license
\* in another snapshot
LicenseTable(p) ==
    LET cols == <<"id", "license_name", "license_description">>
    IN  Table(cols,
            <<Row(cols, IF p.v = "a"
                        THEN <<Some(1), Some("CC-BY"), Some("by")>>
                        ELSE <<Some(1), Some("GPL"), None>>)>>)

TagsTable(p) ==
    LET cols == <<"id", "contentnode_id", "contenttag_id">>
    IN  Table(cols,
            [i \in 1..(IF p.nodes > 0 THEN 1 ELSE 0) |->
                Row(cols, <<Some(7), Some(NodeId(p.ch, 1)), Some("tag")>>)])

FileTable(p) ==
    LET cols == <<"id", "contentnode_id", "local_file_id", "available">>
    IN  Table(cols,
            [j \in 1..p.files |->
                Row(cols, <<Some(FileId(p.ch, j)), Some(NodeId(p.ch, 1)),
                            Some(Checksum(j)), Some(FALSE)>>)])

Extension(p, j) ==
    IF j > 2 THEN Some("pdf") ELSE IF p.v = "a" THEN Some("mp4") ELSE None

OldFileTable(p) ==
    LET cols == <<"id", "contentnode_id", "checksum", "extension",
                  "file_size", "available">>
    IN  Table(cols,
            [j \in 1..p.files |->
                Row(cols, <<Some(FileId(p.ch, j)), Some(NodeId(p.ch, 1)),
                            Some(Checksum(j)), Extension(p, j),
                            Some(IF p.v = "a" THEN 10 ELSE 20), Some(TRUE)>>)])

LocalFileTable(p) ==
    LET cols == <<"id", "extension", "file_size", "available">>
    IN  Table(cols,
            [j \in 1..(IF p.files > 2 THEN 2 ELSE p.files) |->
                Row(cols, <<Some(Checksum(j)), Extension(p, j),
                            Some(IF p.v = "a" THEN 10 ELSE 20), Some(FALSE)>>)])

MetadataTable(p) ==
    LET cols == <<"id", "name", "version", "min_schema_version", "root_id">>
    IN  Table(cols,
            <<Row(cols, <<Some(p.ch), Some("name"), Some(p.cv), Some(p.ver),
                          Some(NodeId(p.ch, 1))>>)>>)

\* old snapshots name the root column root_pk; shape "root_id" is a file
\* whose table has the newer column name under an old version
OldMetadataTable(p) ==
    LET cols == <<"id", "name", "version",
                  IF p.shape = "root_id" THEN "root_id" ELSE "root_pk">>
    IN  Table(cols,
            <<Row(cols, <<Some(p.ch), Some("name"), Some(p.cv),
                          Some(NodeId(p.ch, 1))>>)>>)

\* the source file described by parameters p
Snapshot(p) ==
    [channel_id |-> p.ch,
     \* what read_channel_metadata_from_db_file returns (line 370)
     channel_metadata |->
        IF p.kind = "old"
        THEN [inferred_schema_version |-> p.ver, version |-> p.cv]
        ELSE [inferred_schema_version |-> p.ver, min_schema_version |-> p.ver,
              version |-> p.cv],
     tables |->
        IF p.kind = "old"
        THEN [m \in {"ContentNode", "ContentNode_tags", "File",
                     "ChannelMetadata", "License"} |->
                CASE m = "ContentNode" -> OldNodeTable(p)
                  [] m = "ContentNode_tags" -> TagsTable(p)
                  [] m = "File" -> OldFileTable(p)
                  [] m = "ChannelMetadata" -> OldMetadataTable(p)
                  [] m = "License" -> LicenseTable(p)]
        ELSE [m \in Range(content_models)
                    \ (IF p.shape = "no_tags" THEN {"ContentNode_tags"} ELSE {}) |->
                CASE m = "ContentNode" -> NodeTable(p)
                  [] m = "ContentNode_tags" -> TagsTable(p)
                  [] m = "File" -> FileTable(p)
                  [] m = "LocalFile" -> LocalFileTable(p)
                  [] m = "ChannelMetadata" -> MetadataTable(p)]]

\* row counts <<ContentNode, File>> of the snapshots explored: tables below,
\* at and above the flush threshold, met with different counter values
Sizes ==
    {<<0, 0>>, <<1, FlushThreshold + 1>>, <<2, FlushThreshold + 2>>,
     <<FlushThreshold + 1, 1>>}

\* cv is the version of the channel the file holds
Param(kind, ver, ch, size, v, shape, cv) ==
    [kind |-> kind, ver |-> ver, ch |-> ch, nodes |-> size[1],
     files |-> size[2], v |-> v, shape |-> shape, cv |-> cv]

\* versions absent from the version-to-strategy table
UnmappedVersions ==
    {<<"3">>, <<"1", "0">>, <<"0">>, <<"-", "1">>, <<"x">>, <<"v", "1">>, <<>>}

SnapshotParams ==
    {Param("current", VERSION_2, ch, size, "a", "ok", 1) :
        ch \in Channels, size \in Sizes}
    \cup {Param("current", VERSION_1, "c2", <<1, FlushThreshold + 1>>, "b", "ok", 1),
          Param("current", VERSION_2, "c1", <<1, FlushThreshold + 1>>, "a", "no_tags", 1)}
    \cup {Param("old", ver, "c1", <<2, FlushThreshold + 1>>, "a", "ok", 1) :
            ver \in {NO_VERSION, V020BETA1}}
    \cup {Param("old", V040BETA3, "c2", <<2, FlushThreshold + 1>>, "b", "ok", 1),
          Param("old", NO_VERSION, "c2", <<1, 1>>, "a", "root_id", 1)}
    \cup {Param("current", ver, "c1", <<1, 1>>, "a", "ok", 1) :
            ver \in UnmappedVersions}
    \* a newer version of a channel
    \cup {Param("current", VERSION_2, "c1", <<1, 1>>, "b", "ok", 2),
          Param("old", NO_VERSION, "c1", <<1, 1>>, "b", "ok", 2)}

Snapshots == {Snapshot(p) : p \in SnapshotParams}

(***************************************************************************)
(* Mapping rules of the two import classes.                                *)
(***************************************************************************)
\* ChannelImport.schema_mapping (lines 67-73)
ChannelImport_schema_mapping ==
    [ContentNode |-> [per_row |-> [tree_id |-> "get_tree_id"]]]

\* NoVersionChannelImport.schema_mapping (lines 256-301)
NoVersionChannelImport_schema_mapping ==
    [ContentNode |->
        [per_row |->
            [channel_id |-> "infer_channel_id_from_source",
             tree_id |-> "get_tree_id",
             available |-> "get_none",
             license_name |-> "get_license_name",
             license_description |-> "get_license_description"]],
     File |->
        [per_row |-> [local_file_id |-> "checksum", available |-> "get_none"]],
     LocalFile |->
        [per_table |-> "generate_local_file_from_file",
         per_row |->
            [id |-> "checksum", extension |-> "extension",
             file_size |-> "file_size", available |-> "get_none"]],
     ChannelMetadata |->
        [per_row |->
            [min_schema_version |-> "set_version_to_no_version",
             root_id |-> "root_pk"]]]

schema_mapping(cls) ==
    IF cls = "NoVersionChannelImport"
    THEN NoVersionChannelImport_schema_mapping
    ELSE ChannelImport_schema_mapping

\* the names hasattr(self, name) finds on an import manager
ChannelImportAttrs ==
    {"schema_mapping", "channel_id", "channel_version", "source", "destination",
     "content_models", "tree_id", "get_tree_id", "get_all_destination_tree_ids",
     "find_unique_tree_id", "generate_row_mapper", "base_table_mapper",
     "generate_table_mapper", "table_import", "import_channel_data", "end"}

NoVersionChannelImportAttrs ==
    ChannelImportAttrs \cup
    {"licenses", "get_none", "infer_channel_id_from_source",
     "generate_local_file_from_file", "set_version_to_no_version",
     "get_license", "get_license_name", "get_license_description"}

SelfAttrs(cls) ==
    IF cls = "NoVersionChannelImport"
    THEN NoVersionChannelImportAttrs ELSE ChannelImportAttrs

\* getattr(record, name, None) on a row
Attr(record, name) ==
    IF name \in DOMAIN record THEN Some(record[name]) ELSE None

\* self.source.get_class(model): the table, or ClassNotFoundError
SourceGetClass(source, model) ==
    IF model \in DOMAIN source.tables
    THEN [raised |-> "", table |-> Some(source.tables[model])]
    ELSE [raised |-> "ClassNotFoundError", table |-> None]

\* session.query(LicenseRecord).get(license_id): the row or None
QueryGet(table, id) ==
    LET hit == {i \in 1..Len(table.rows) : Attr(table.rows[i], "id") = Some(id)}
    IN  IF hit = {} THEN None ELSE Some(table.rows[Min(hit)])

\* NoVersionChannelImport.get_license (lines 325-333): the license and the
\* class-level cache after the call
get_license(self, lic, record) ==
    LET license_id == Attr(record, "license_id")
        cls_ == SourceGetClass(self.source, "License")
    IN  IF license_id = None \/ license_id = Some(0)
        THEN [raised |-> "", value |-> None, licenses |-> lic]
        ELSE IF license_id[1] \in DOMAIN lic
        THEN [raised |-> "", value |-> lic[license_id[1]], licenses |-> lic]
        ELSE IF cls_.raised # ""
        THEN [raised |-> cls_.raised, value |-> None, licenses |-> lic]
        ELSE LET license == QueryGet(cls_.table[1], license_id[1])
             IN  [raised |-> "", value |-> license,
                  licenses |-> (license_id[1] :> license) @@ lic]

\* lines 335-339
get_license_name(self, lic, record) ==
    LET got == get_license(self, lic, record)
    IN  IF got.raised # "" \/ got.value = None THEN got
        ELSE [got EXCEPT !.value = Attr(got.value[1], "license_name")]

\* lines 341-345
get_license_description(self, lic, record) ==
    LET got == get_license(self, lic, record)
    IN  IF got.raised # "" \/ got.value = None THEN got
        ELSE [got EXCEPT !.value = Attr(got.value[1], "license_description")]

\* get_tree_id handing back the tree id of the source row
get_tree_id_of_source(self, source_object) == source_object["tree_id"]

\* lines 93-94
get_tree_id(self, source_object) == self.tree_id

\* lines 305-306
get_none(self, source_object) == None

\* lines 308-309
infer_channel_id_from_source(self, source_object) == self.channel_id

\* lines 322-323
set_version_to_no_version(self, source_object) == NO_VERSION

\* getattr(self, col_map)(record) for the procedures taking a row
CallMethod(self, lic, col_map, record) ==
    LET pure(v) == [raised |-> "", value |-> v, licenses |-> lic]
    IN  CASE col_map = "get_tree_id" -> pure(Some(get_tree_id(self, record)))
          [] col_map = "get_none" -> pure(get_none(self, record))
          [] col_map = "infer_channel_id_from_source" ->
                pure(Some(infer_channel_id_from_source(self, record)))
          [] col_map = "set_version_to_no_version" ->
                pure(Some(set_version_to_no_version(self, record)))
          [] col_map = "get_license" -> get_license(self, lic, record)
          [] col_map = "get_license_name" -> get_license_name(self, lic, record)
          [] col_map = "get_license_description" ->
                get_license_description(self, lic, record)
          [] OTHER -> [raised |-> "TypeError", value |-> None, licenses |-> lic]

\* generate_row_mapper (lines 133-163): mapper(record, column), where
\* src_columns are the attributes of the record's class
mapper(self, lic, per_row, src_columns, record, column) ==
    IF column \in DOMAIN per_row
    THEN LET col_map == per_row[column]
         IN  IF col_map \in src_columns
             THEN [raised |-> "", value |-> Attr(record, col_map), licenses |-> lic]
             ELSE IF col_map \in SelfAttrs(self.cls)
             THEN CallMethod(self, lic, col_map, record)
             ELSE [raised |-> "AttributeError", value |-> None, licenses |-> lic]
    ELSE [raised |-> "", value |-> Attr(record, column), licenses |-> lic]

RECURSIVE MapColumns(_, _, _, _, _, _, _)
\* lines 203-205: the destination row built from one source row, over the
\* columns from index i on; acc is the result so far
MapColumns(self, per_row, src_columns, record, columns, i, acc) ==
    IF i > Len(columns) \/ acc.raised # "" THEN acc
    ELSE LET got == mapper(self, acc.licenses, per_row, src_columns, record,
                           columns[i])
         IN  MapColumns(self, per_row, src_columns, record, columns, i + 1,
                 [raised |-> got.raised,
                  data |-> IF got.raised = "" /\ got.value # None
                           THEN (columns[i] :> got.value[1]) @@ acc.data
                           ELSE acc.data,
                  licenses |-> got.licenses])

MapRow(self, lic, per_row, src_columns, record, model) ==
    MapColumns(self, per_row, src_columns, record, WritableColumns(model), 1,
               [raised |-> "", data |-> <<>>, licenses |-> lic])

(***************************************************************************)
(* Table mappers.  A table mapper yields the source rows of one model and  *)
(* the attributes of their class.                                          *)
(***************************************************************************)
NoRows == [raised |-> "", columns |-> {}, rows |-> <<>>]

\* base_table_mapper without the test of line 166: it queries whatever it
\* is handed
base_table_mapper_queries_none(self, SourceRecord) ==
    IF SourceRecord # None
    THEN [raised |-> "", columns |-> SourceRecord[1].columns,
          rows |-> SourceRecord[1].rows]
    ELSE [raised |-> "ClassNotFoundError", columns |-> {}, rows |-> <<>>]

\* lines 165-169
base_table_mapper(self, SourceRecord) ==
    IF SourceRecord # None
    THEN [raised |-> "", columns |-> SourceRecord[1].columns,
          rows |-> SourceRecord[1].rows]
    ELSE NoRows

\* the loop of lines 315-320 without line 317
FirstPerChecksum_forgets(rows, i, seen) == SubSeq(rows, i, Len(rows))

RECURSIVE FirstPerChecksum(_, _, _)
\* the loop of lines 315-320 from row i on; seen is checksum_record
FirstPerChecksum(rows, i, seen) ==
    IF i > Len(rows) THEN <<>>
    ELSE IF Attr(rows[i], "checksum") \notin seen
    THEN <<rows[i]>> \o
         FirstPerChecksum(rows, i + 1, seen \cup {Attr(rows[i], "checksum")})
    ELSE FirstPerChecksum(rows, i + 1, seen)

\* lines 311-320
generate_local_file_from_file(self, SourceRecord) ==
    LET cls_ == SourceGetClass(self.source, "File")
    IN  IF cls_.raised # ""
        THEN [raised |-> cls_.raised, columns |-> {}, rows |-> <<>>]
        ELSE IF Len(cls_.table[1].rows) > 0
                /\ "checksum" \notin cls_.table[1].columns
        THEN [raised |-> "AttributeError", columns |-> {}, rows |-> <<>>]
        ELSE [raised |-> "", columns |-> cls_.table[1].columns,
              rows |-> FirstPerChecksum(cls_.table[1].rows, 1, {})]

\* generate_table_mapper (lines 171-180): the name of the mapper to use
generate_table_mapper(self, table_map) ==
    IF table_map = None
    THEN [raised |-> "", name |-> "base_table_mapper"]
    ELSE IF table_map[1] \in SelfAttrs(self.cls)
    THEN [raised |-> "", name |-> table_map[1]]
    ELSE [raised |-> "AttributeError", name |-> ""]

\* table_mapper(SourceRecord) at line 202
CallTableMapper(self, name, SourceRecord) ==
    CASE name = "base_table_mapper" -> base_table_mapper(self, SourceRecord)
      [] name = "generate_local_file_from_file" ->
            generate_local_file_from_file(self, SourceRecord)
      [] OTHER -> [raised |-> "TypeError", columns |-> {}, rows |-> <<>>]

(***************************************************************************)
(* The destination store, as far as the import uses it.  A view maps each  *)
(* model to the list of its rows.                                          *)
(***************************************************************************)
RowIds(rows) == {Attr(rows[i], "id") : i \in 1..Len(rows)}

\* the store gives each row of a table with an integer primary key the
\* next id of the table
WithAutoPk(model, existing, rows) ==
    IF AutoPk(model) = {} THEN rows
    ELSE [i \in 1..Len(rows) |-> ("id" :> (Len(existing) + i)) @@ rows[i]]

\* session.bulk_insert_mappings (lines 217, 222): INSERTs the rows; a row
\* whose primary key is missing or already used fails the statement
bulk_insert_mappings(view, model, rows) ==
    LET new == WithAutoPk(model, view[model], rows)
    IN  IF \/ None \in RowIds(new)
           \/ RowIds(new) \cap RowIds(view[model]) # {}
           \/ Cardinality(RowIds(new)) # Len(new)
        THEN [raised |-> "SQLAlchemyError", view |-> view]
        ELSE [raised |-> "", view |-> [view EXCEPT ![model] = @ \o new]]

\* a merge that adds the row without looking for its primary key
merge_adds(view, model, data) == [view EXCEPT ![model] = Append(@, data)]

\* session.merge (line 211): the attributes given are copied onto the row
\* with the same primary key when there is one, else the row is added
merge(view, model, data) ==
    LET hit == {i \in 1..Len(view[model]) :
                    Attr(view[model][i], "id") = Attr(data, "id")}
    IN  IF hit = {} \/ Attr(data, "id") = None
        THEN [view EXCEPT ![model] = Append(@, data)]
        ELSE [view EXCEPT ![model][Min(hit)] = data @@ @]

\* a flush that ends the transaction
flush_commits(store, view) == view

\* session.flush (line 219): pending changes go to the database inside the
\* transaction; what is committed does not change
flush(store, view) == store

\* session.commit (line 236)
commit(store, view) == view

\* session.rollback (line 240)
rollback(store, view) == store

\* get_all_destination_tree_ids without the query of lines 98-99
get_all_destination_tree_ids_none(view) == <<>>

\* lines 96-99
get_all_destination_tree_ids(view) ==
    SortedSeq({view["ContentNode"][i]["tree_id"] :
                 i \in {j \in 1..Len(view["ContentNode"]) :
                          "tree_id" \in DOMAIN view["ContentNode"][j]}})

(***************************************************************************)
(* Import managers.                                                        *)
(***************************************************************************)
Engines == 1..MaxEngines

\* no import manager
NoEngine ==
    [status |-> "free", raised |-> "", cls |-> "None", channel_id |-> "",
     channel_version |-> 0, source |-> <<>>, tree_id |-> 0, pre |-> EmptyTables,
     pre_call |-> EmptyTables,
     pc |-> "", mi |-> 0, model |-> "", merge |-> FALSE, per_row |-> <<>>,
     src_columns |-> {}, records |-> <<>>, ri |-> 0, data_to_insert |-> <<>>,
     unflushed_rows |-> 0, start_rows |-> 0, calls |-> <<>>]

Call(op, model, rows) == [op |-> op, model |-> model, rows |-> rows]

\* line 372
MinVersion(channel_metadata) ==
    IF "min_schema_version" \in DOMAIN channel_metadata
    THEN channel_metadata.min_schema_version
    ELSE channel_metadata.inferred_schema_version

\* the except clause of import_channel_data (lines 238-242): the session
\* after an exception of kind err left the try block
ExceptHandler(err, store, view) ==
    IF err = "SQLAlchemyError" THEN rollback(store, view) ELSE view

\* exception err leaves import_channel_data with the session at view
Raise(e, err, view, lic) ==
    /\ eng' = [eng EXCEPT ![e].status = "raised", ![e].raised = err,
                          ![e].calls =
                              IF err = "SQLAlchemyError"
                              THEN Append(@, Call("rollback", "", <<>>)) ELSE @]
    /\ session' = [session EXCEPT ![e] = ExceptHandler(err, committed, view)]
    /\ licenses' = lic
    /\ UNCHANGED <<committed, imports>>

\* in Spec one call of import_channel_from_local_db runs at a time
NoneRunning ==
    \A e \in Engines : eng[e].status \notin {"running", "committed"}

\* the engine slot a new import manager takes in Spec: the lowest one not
\* running
FreeSlot(e) ==
    /\ eng[e].status # "running"
    /\ \A d \in Engines : d < e => eng[d].status = "running"

\* initialize_import_manager (lines 369-392) with ChannelImport.__init__
\* (lines 75-91)
InitializeImportManager(e, snap) ==
    /\ imports < MaxImports
    /\ LET resolved == ResolveImportClass(MinVersion(snap.channel_metadata))
           view == committed
       IN  /\ eng' = [eng EXCEPT ![e] =
                IF resolved.raised # ""
                THEN [NoEngine EXCEPT !.status = "raised",
                                      !.raised = resolved.raised,
                                      !.source = snap, !.pre = committed,
                                      !.pre_call = committed]
                ELSE [NoEngine EXCEPT
                        !.status = "running", !.cls = resolved.cls,
                        !.channel_id = snap.channel_id,
                        !.channel_version = snap.channel_metadata.version,
                        !.source = snap, !.pre = committed,
                        !.pre_call = committed,
                        !.tree_id = find_unique_tree_id(
                                        get_all_destination_tree_ids(view)),
                        !.pc = "init"]]
           /\ session' = [session EXCEPT ![e] = view]
    /\ imports' = imports + 1
    /\ UNCHANGED <<committed, licenses>>

\* ChannelMetadata.objects.get(id=channel_id) (line 400): the positions of
\* the channel's row in the destination
ExistingChannel(store, channel_id) ==
    {j \in 1..Len(store["ChannelMetadata"]) :
        Attr(store["ChannelMetadata"][j], "id") = Some(channel_id)}

\* ids of the ContentNode rows of a channel
ChannelNodeIds(store, channel_id) ==
    {store["ContentNode"][j].id : j \in
        {k \in 1..Len(store["ContentNode"]) :
            Attr(store["ContentNode"][k], "channel_id") = Some(channel_id)}}

\* existing_channel.delete_content_tree_and_files() (line 409): the channel's
\* content tree goes, with the rows that hang on its nodes (tags, files) and
\* the channel's metadata row; the deletion is committed at once
delete_content_tree_and_files(store, channel_id) ==
    LET gone == ChannelNodeIds(store, channel_id)
        OnNode(row) == Attr(row, "contentnode_id") = None
                       \/ Attr(row, "contentnode_id")[1] \notin gone
        KeepNode(row) == row.id \notin gone
        KeepChannel(row) == Attr(row, "id") # Some(channel_id)
    IN  [m \in DOMAIN store |->
            CASE m = "ContentNode" -> SelectSeq(store[m], KeepNode)
              [] m = "ContentNode_tags" -> SelectSeq(store[m], OnNode)
              [] m = "File" -> SelectSeq(store[m], OnNode)
              [] m = "ChannelMetadata" -> SelectSeq(store[m], KeepChannel)
              [] OTHER -> store[m]]

\* the comparison of line 404 letting the same version through
IsOlderVersion_or_same(existing_channel, import_manager) ==
    existing_channel.version <= import_manager.channel_version

\* line 404
IsOlderVersion(existing_channel, import_manager) ==
    existing_channel.version < import_manager.channel_version

\* import_channel_from_local_db between the construction of the import
\* manager and import_channel_data (lines 398-415): an older version of the
\* channel is deleted, the same or a newer one cancels the import
ImportChannelFromLocalDb(e) ==
    /\ eng[e].status = "running" /\ eng[e].pc = "init"
    /\ LET self == eng[e]
           existing == ExistingChannel(committed, self.channel_id)
           existing_channel == committed["ChannelMetadata"][Min(existing)]
       IN  IF existing = {}
           THEN /\ eng' = [eng EXCEPT ![e].pc = "import"]
                /\ UNCHANGED <<committed, session>>
           ELSE IF IsOlderVersion(existing_channel, self)
           THEN /\ committed' = delete_content_tree_and_files(
                                    committed, self.channel_id)
                /\ session' = [session EXCEPT ![e] = committed']
                /\ eng' = [eng EXCEPT ![e].pc = "import",
                                      ![e].calls = Append(@, Call("delete", "", <<>>))]
           ELSE /\ eng' = [eng EXCEPT ![e].status = "cancelled",
                                      ![e].pc = "done"]
                /\ UNCHANGED <<committed, session>>
    /\ UNCHANGED <<licenses, imports>>

\* import_channel_data, line 227
BeginImport(e) ==
    /\ eng[e].status = "running" /\ eng[e].pc = "import"
    /\ eng' = [eng EXCEPT ![e].pc = "model", ![e].mi = 1,
                          ![e].unflushed_rows = 0, ![e].pre = committed]
    /\ UNCHANGED <<committed, session, licenses, imports>>

\* lines 230-233 and table_import up to the loop header (lines 183-202)
BeginTable(e) ==
    /\ eng[e].status = "running" /\ eng[e].pc = "model"
    /\ eng[e].mi <= Len(content_models)
    /\ LET self == eng[e]
           model == content_models[self.mi]
           mapping == DictGet(schema_mapping(self.cls), model).value
           per_row == IF mapping # None /\ "per_row" \in DOMAIN mapping[1]
                      THEN mapping[1].per_row ELSE <<>>
           table_map == IF mapping # None /\ "per_table" \in DOMAIN mapping[1]
                        THEN Some(mapping[1].per_table) ELSE None
           table_mapper == generate_table_mapper(self, table_map)
           SourceRecord == SourceGetClass(self.source, model).table
           got == CallTableMapper(self, table_mapper.name, SourceRecord)
       IN  IF table_mapper.raised # ""
           THEN Raise(e, table_mapper.raised, session[e], licenses)
           ELSE IF got.raised # ""
           THEN Raise(e, got.raised, session[e], licenses)
           ELSE /\ eng' = [eng EXCEPT
                        ![e].pc = "rows", ![e].model = model,
                        ![e].merge = (model \in merge_models),
                        ![e].per_row = per_row,
                        ![e].src_columns = got.columns,
                        ![e].records = got.rows, ![e].ri = 1,
                        ![e].data_to_insert = <<>>,
                        ![e].start_rows = self.unflushed_rows]
                /\ UNCHANGED <<committed, session, licenses, imports>>

\* the threshold test one row late
FlushDueLate(unflushed_rows) == unflushed_rows > FlushThreshold

\* line 215
FlushDue(unflushed_rows) == unflushed_rows = FlushThreshold

\* one pass of the loop of table_import (lines 202-220)
ProcessRow(e) ==
    /\ eng[e].status = "running" /\ eng[e].pc = "rows"
    /\ eng[e].ri <= Len(eng[e].records)
    /\ LET self == eng[e]
           row == MapRow(self, licenses, self.per_row, self.src_columns,
                         self.records[self.ri], self.model)
           view1 == IF self.merge THEN merge(session[e], self.model, row.data)
                    ELSE session[e]
           data1 == IF self.merge THEN self.data_to_insert
                    ELSE Append(self.data_to_insert, row.data)
           calls1 == IF self.merge
                     THEN Append(self.calls, Call("merge", self.model, <<row.data>>))
                     ELSE self.calls
           full == FlushDue(self.unflushed_rows + 1)
           bulk == bulk_insert_mappings(view1, self.model, data1)
       IN  IF row.raised # ""
           THEN Raise(e, row.raised, session[e], row.licenses)
           ELSE IF full /\ ~self.merge /\ bulk.raised # ""
           THEN Raise(e, bulk.raised, view1, row.licenses)
           ELSE /\ eng' = [eng EXCEPT
                        ![e].ri = @ + 1,
                        ![e].data_to_insert =
                            IF full /\ ~self.merge THEN <<>> ELSE data1,
                        ![e].unflushed_rows = IF full THEN 0 ELSE @ + 1,
                        ![e].calls =
                            IF ~full THEN calls1
                            ELSE IF self.merge
                            THEN Append(calls1, Call("flush", "", <<>>))
                            ELSE calls1 \o
                                 <<Call("bulk_insert_mappings", self.model, data1),
                                   Call("flush", "", <<>>)>>]
                /\ session' = [session EXCEPT ![e] =
                        IF full /\ ~self.merge THEN bulk.view ELSE view1]
                /\ committed' =
                        IF full
                        THEN flush(committed,
                                   IF self.merge THEN view1 ELSE bulk.view)
                        ELSE committed
                /\ licenses' = row.licenses
                /\ UNCHANGED imports

\* table_import handing back a fresh counter
table_import_returns_zero(unflushed_rows) == 0

\* lines 223 and 235: the counter table_import returns is the one the next
\* call of table_import starts with
table_import_returns(unflushed_rows) == unflushed_rows

\* table_import returning without the bulk insert of lines 221-222
EndTable_leaves_rest(e) ==
    /\ eng[e].status = "running" /\ eng[e].pc = "rows"
    /\ eng[e].ri > Len(eng[e].records)
    /\ eng' = [eng EXCEPT ![e].pc = "model", ![e].mi = @ + 1]
    /\ UNCHANGED <<committed, session, licenses, imports>>

\* the end of table_import (lines 221-223) and the return to line 230
EndTable(e) ==
    /\ eng[e].status = "running" /\ eng[e].pc = "rows"
    /\ eng[e].ri > Len(eng[e].records)
    /\ LET self == eng[e]
           rest == ~self.merge /\ Len(self.data_to_insert) > 0
           bulk == bulk_insert_mappings(session[e], self.model,
                                        self.data_to_insert)
       IN  IF rest /\ bulk.raised # ""
           THEN Raise(e, bulk.raised, session[e], licenses)
           ELSE /\ eng' = [eng EXCEPT
                        ![e].pc = "model", ![e].mi = @ + 1,
                        ![e].unflushed_rows = table_import_returns(@),
                        ![e].calls =
                            IF rest
                            THEN Append(@, Call("bulk_insert_mappings",
                                                self.model, self.data_to_insert))
                            ELSE @]
                /\ session' = [session EXCEPT ![e] =
                        IF rest THEN bulk.view ELSE @]
                /\ UNCHANGED <<committed, licenses, imports>>

\* line 236
Commit(e) ==
    /\ eng[e].status = "running" /\ eng[e].pc = "model"
    /\ eng[e].mi > Len(content_models)
    /\ committed' = commit(committed, session[e])
    /\ eng' = [eng EXCEPT ![e].status = "committed", ![e].pc = "done",
                          ![e].calls = Append(@, Call("commit", "", <<>>))]
    /\ UNCHANGED <<session, licenses, imports>>

\* set_availability(channel_id) (line 421): the availability flags are
\* computed anew, from the files found on disk (on_disk) down to the local
\* files and up to the files and content nodes of the channel
set_availability(store, channel_id, on_disk) ==
    LET nodes == ChannelNodeIds(store, channel_id)
        Flag(row) == ("available" :> on_disk) @@ row
        OfChannel(row) == Attr(row, "contentnode_id") # None
                          /\ Attr(row, "contentnode_id")[1] \in nodes
    IN  [m \in DOMAIN store |->
            CASE m = "LocalFile" ->
                    [i \in 1..Len(store[m]) |-> Flag(store[m][i])]
              [] m = "File" ->
                    [i \in 1..Len(store[m]) |->
                        IF OfChannel(store[m][i]) THEN Flag(store[m][i])
                        ELSE store[m][i]]
              [] m = "ContentNode" ->
                    [i \in 1..Len(store[m]) |->
                        IF store[m][i].id \in nodes THEN Flag(store[m][i])
                        ELSE store[m][i]]
              [] OTHER -> store[m]]

\* ContentNode.objects.create (lines 430-435): a root node of its own tree,
\* with the tree id after the largest one in use
CreateRoot(store, channel, channel_id) ==
    LET used == {store["ContentNode"][i].tree_id : i \in
                    {j \in 1..Len(store["ContentNode"]) :
                        "tree_id" \in DOMAIN store["ContentNode"][j]}}
        next == IF used = {} THEN 1
                ELSE (CHOOSE t \in used : \A u \in used : u <= t) + 1
    IN  [store EXCEPT !["ContentNode"] =
            Append(@, [id |-> channel.root_id, title |-> channel.name,
                       channel_id |-> channel_id, tree_id |-> next])]

\* channel.last_updated = local_now() and channel.save() (lines 424, 435);
\* now is the time of the call
StampLastUpdated(store, channel_id, now) ==
    [store EXCEPT !["ChannelMetadata"] =
        [i \in 1..Len(@) |->
            IF Attr(@[i], "id") = Some(channel_id)
            THEN ("last_updated" :> now) @@ @[i] ELSE @[i]]]

\* import_channel_from_local_db after import_channel_data has returned
\* (lines 419-435): the sessions are closed, availability is recomputed, the
\* channel is stamped and gets a root node if it has none
AfterImport(e, on_disk) ==
    /\ eng[e].status = "committed"
    /\ LET self == eng[e]
           flagged == set_availability(committed, self.channel_id, on_disk)
           existing == ExistingChannel(flagged, self.channel_id)
           channel == flagged["ChannelMetadata"][Min(existing)]
           Fail(err) ==
               /\ committed' = flagged
               /\ eng' = [eng EXCEPT
                            ![e].status = "raised_after", ![e].raised = err,
                            ![e].calls = Append(@, Call("set_availability", "", <<>>))]
       IN  IF existing = {} THEN Fail("DoesNotExist")
           ELSE IF Attr(channel, "root_id") = None THEN Fail("AssertionError")
           ELSE LET rooted ==
                        IF Some(channel.root_id)
                               \in RowIds(flagged["ContentNode"])
                        THEN flagged
                        ELSE CreateRoot(flagged, channel, self.channel_id)
                IN  /\ committed' = StampLastUpdated(rooted, self.channel_id,
                                                     imports)
                    /\ eng' = [eng EXCEPT
                            ![e].status = "finished",
                            ![e].calls = @ \o
                                <<Call("set_availability", "", <<>>),
                                  Call("save", "ChannelMetadata", <<>>)>>]
    /\ UNCHANGED <<session, licenses, imports>>

\* whether the table mapper of a model queries the source: the model's table
\* is there (line 167) or the class has its own mapper (line 315)
QueriesSource(self, model) ==
    LET mapping == DictGet(schema_mapping(self.cls), model).value
    IN  \/ model \in DOMAIN self.source.tables
        \/ mapping # None /\ "per_table" \in DOMAIN mapping[1]

\* whether the next step of the import talks to a store
StoreOperationNext(e) ==
    LET self == eng[e]
    IN  /\ self.status = "running"
        /\ \/ /\ self.pc = "model"
              /\ IF self.mi > Len(content_models) THEN TRUE
                 ELSE QueriesSource(self, content_models[self.mi])
           \/ /\ self.pc = "rows" /\ self.ri <= Len(self.records)
              /\ self.merge \/ FlushDue(self.unflushed_rows + 1)
           \/ /\ self.pc = "rows" /\ self.ri > Len(self.records)
              /\ ~self.merge /\ Len(self.data_to_insert) > 0

\* a query, merge, bulk insert, flush or commit fails in the store
\* (SQLAlchemyError) and the except clause runs
StoreError(e) ==
    /\ StoreOperationNext(e)
    /\ Raise(e, "SQLAlchemyError", session[e], licenses)

(***************************************************************************)
(* Spec: imports run one after the other against one destination.          *)
(***************************************************************************)
Init ==
    /\ tree_ids = <<>>
    /\ found = 0
    /\ args = <<>>
    /\ result = <<>>
    /\ committed = EmptyTables
    /\ session = [e \in Engines |-> EmptyTables]
    /\ eng = [e \in Engines |-> NoEngine]
    /\ licenses = <<>>
    /\ imports = 0

Next ==
    \/ \E e \in Engines, snap \in Snapshots :
            /\ NoneRunning /\ FreeSlot(e)
            /\ InitializeImportManager(e, snap) /\ UNCHANGED treeVars
    \/ \E e \in Engines : ImportChannelFromLocalDb(e) /\ UNCHANGED treeVars
    \/ \E e \in Engines : BeginImport(e) /\ UNCHANGED treeVars
    \/ \E e \in Engines : BeginTable(e) /\ UNCHANGED treeVars
    \/ \E e \in Engines : ProcessRow(e) /\ UNCHANGED treeVars
    \/ \E e \in Engines : EndTable(e) /\ UNCHANGED treeVars
    \/ \E e \in Engines : Commit(e) /\ UNCHANGED treeVars
    \/ \E e \in Engines, on_disk \in BOOLEAN :
            AfterImport(e, on_disk) /\ UNCHANGED treeVars
    \/ \E e \in Engines : StoreError(e) /\ UNCHANGED treeVars

Spec == Init /\ [][Next]_vars

(***************************************************************************)
(* SpecTree: find_unique_tree_id applied to a list of tree ids.            *)
(***************************************************************************)
InitTree ==
    /\ tree_ids \in SortedDistinctLists
    /\ found = 0
    /\ args = <<>>
    /\ result = <<>>
    /\ committed = EmptyTables
    /\ session = [e \in Engines |-> EmptyTables]
    /\ eng = [e \in Engines |-> NoEngine]
    /\ licenses = <<>>
    /\ imports = 0

FindUniqueTreeId ==
    /\ found = 0
    /\ found' = find_unique_tree_id(tree_ids)
    /\ UNCHANGED <<tree_ids, args, result>>
    /\ UNCHANGED mainVars

NextTree == FindUniqueTreeId

SpecTree == InitTree /\ [][NextTree]_vars

(***************************************************************************)
(* Claims about the tree id search (SpecTree).                             *)
(***************************************************************************)
\* C1: for every sorted list of distinct positive integers, lists of two or
\* more elements that start above 1 included, find_unique_tree_id returns
\* the least positive integer that is not in the list.
C1_ReturnsMinimumAbsent ==
    found # 0 => found = MinAbsent(tree_ids)

(***************************************************************************)
(* Claims about the import (Spec).                                         *)
(***************************************************************************)
\* import_channel_data was entered by manager e and raised
ImportFailed(e) == eng[e].status = "raised" /\ eng[e].cls # "None"

CallsOf(self, op, model) ==
    SelectSeq(self.calls, LAMBDA c : c.op = op /\ c.model = model)

RECURSIVE RowsOf(_)
\* the rows of a list of calls, in call order
RowsOf(calls) ==
    IF Len(calls) = 0 THEN <<>> ELSE Head(calls).rows \o RowsOf(Tail(calls))

\* C2: when import_channel_data fails, at whatever point, the committed
\* contents of the destination are those from before the import started.
C2_FailedImportPersistsNothing ==
    \A e \in Engines : ImportFailed(e) => committed = eng[e].pre

\* a failure while the last entity type is processed, after rows of earlier
\* types were bulk-inserted and merged
C2_Witness ==
    \E e \in Engines :
        /\ ImportFailed(e)
        /\ eng[e].mi = Len(content_models)
        /\ \E i, j \in 1..Len(eng[e].calls) :
              /\ eng[e].calls[i].op = "merge"
              /\ eng[e].calls[j].op = "bulk_insert_mappings"

\* C3: whatever failure import_channel_data raises, the destination
\* transaction is rolled back: no uncommitted write is left in the session.
C3_EveryFailureRollsBack ==
    \A e \in Engines : ImportFailed(e) => session[e] = committed

\* the version initialize_import_manager was called with
CalledVersion(e) == MinVersion(eng[e].source.channel_metadata)

\* initialize_import_manager was called with a version that is no key of the
\* version table
UnmappedCall(e) ==
    /\ eng[e].status # "free"
    /\ CalledVersion(e) \notin DOMAIN mappings

\* C4: an unmapped version that parses as a number above the current schema
\* version fails with FutureSchemaError, and no import manager is constructed.
C4_FutureVersionRaisesFutureSchemaError ==
    \A e \in Engines :
        (/\ UnmappedCall(e)
         /\ PyInt(CalledVersion(e)).raised = ""
         /\ PyInt(CalledVersion(e)).value > PyInt(CONTENT_SCHEMA_VERSION).value)
        => eng[e].raised = "FutureSchemaError" /\ eng[e].cls = "None"

\* C5: an unmapped version that parses as a number below the current schema
\* version fails with an unsupported-version error, a kind other than the
\* one of non-numeric versions.
C5_OldVersionRaisesUnsupported ==
    \A e \in Engines :
        (/\ UnmappedCall(e)
         /\ PyInt(CalledVersion(e)).raised = ""
         /\ PyInt(CalledVersion(e)).value < PyInt(CONTENT_SCHEMA_VERSION).value)
        => /\ eng[e].raised = "UnsupportedSchemaVersion"
           /\ eng[e].raised # "InvalidSchemaVersionError"

\* C6: an unmapped version that does not parse as a number fails with
\* InvalidSchemaVersionError, and no import manager is constructed.
C6_NonNumericVersionRaisesInvalid ==
    \A e \in Engines :
        (UnmappedCall(e) /\ PyInt(CalledVersion(e)).raised = "ValueError")
        => eng[e].raised = "InvalidSchemaVersionError" /\ eng[e].cls = "None"

\* the license record row data was computed from, in the import's own source
OwnLicense(self, data) ==
    LET nodes == self.source.tables["ContentNode"].rows
        record == nodes[CHOOSE i \in 1..Len(nodes) :
                            Attr(nodes[i], "id") = Attr(data, "id")]
    IN  IF Attr(record, "license_id") = None THEN None
        ELSE QueryGet(self.source.tables["License"], record["license_id"])

\* the ContentNode rows manager e has computed so far
NodeRowsOf(self) ==
    RowsOf(CallsOf(self, "bulk_insert_mappings", "ContentNode"))
    \o (IF self.model = "ContentNode" /\ self.pc = "rows"
        THEN self.data_to_insert ELSE <<>>)

\* C7: the license name and description computed for a row are those of the
\* license with that id in the import's own source snapshot, never those
\* cached by an earlier import.
C7_LicenseFromOwnSnapshot ==
    \A e \in Engines :
        eng[e].cls = "NoVersionChannelImport" =>
            \A i \in 1..Len(NodeRowsOf(eng[e])) :
                LET data == NodeRowsOf(eng[e])[i]
                    license == OwnLicense(eng[e], data)
                IN  /\ Attr(data, "license_name") =
                          IF license = None THEN None
                          ELSE Attr(license[1], "license_name")
                    /\ Attr(data, "license_description") =
                          IF license = None THEN None
                          ELSE Attr(license[1], "license_description")

\* table_import has just returned for the model in eng[e].model
TableDone(e) ==
    eng[e].status = "running" /\ eng[e].pc = "model" /\ eng[e].mi > 1

\* the destination rows table_import computes from the records of the table
\* it has just finished
MappedRecords(self) ==
    [i \in 1..Len(self.records) |->
        MapRow(self, licenses, self.per_row, self.src_columns,
               self.records[i], self.model).data]

\* C8: a non-merge entity type with more source rows than the flush
\* threshold, whatever the shared counter was when it started, gets at least
\* two bulk inserts, each of at most threshold rows, which together carry
\* every source row exactly once.
C8_LargeTableFlushedInBatches ==
    \A e \in Engines :
        (TableDone(e) /\ ~eng[e].merge
         /\ Len(eng[e].records) > FlushThreshold)
        => LET bulk == CallsOf(eng[e], "bulk_insert_mappings", eng[e].model)
           IN  /\ Len(bulk) >= 2
               /\ \A i \in 1..Len(bulk) : Len(bulk[i].rows) <= FlushThreshold
               /\ RowsOf(bulk) = MappedRecords(eng[e])

\* a table above the threshold finished after starting with a counter that
\* was not zero
C8_Witness ==
    \E e \in Engines :
        /\ TableDone(e) /\ ~eng[e].merge
        /\ Len(eng[e].records) > FlushThreshold
        /\ eng[e].start_rows > 0
        /\ Len(CallsOf(eng[e], "bulk_insert_mappings", eng[e].model)) >= 2

\* the rows of a view with the primary key of row data
SameIdentity(rows, data) ==
    {i \in 1..Len(rows) : Attr(rows[i], "id") = Attr(data, "id")}

\* the merge calls of manager e whose row existed before its import
MergesOfExisting(e) ==
    {i \in 1..Len(eng[e].calls) :
        /\ eng[e].calls[i].op = "merge"
        /\ SameIdentity(eng[e].pre[eng[e].calls[i].model],
                        eng[e].calls[i].rows[1]) # {}}

\* C9 as stated: after a committed import that merged a row whose identity
\* an earlier committed import had written, one destination row has that
\* identity and it holds the second import's value in every column.
C9_MergedRowHoldsSecondValues ==
    \A e \in Engines :
        eng[e].status = "committed" =>
            \A i \in MergesOfExisting(e) :
                LET model == eng[e].calls[i].model
                    data == eng[e].calls[i].rows[1]
                    hit == SameIdentity(committed[model], data)
                IN  /\ Cardinality(hit) = 1
                    /\ \A k \in hit :
                          \A c \in Range(WritableColumns(model)) :
                              Attr(committed[model][k], c) = Attr(data, c)

\* C9 amended: one destination row has the identity; it holds the second
\* import's value in every column that import resolved to a value, and keeps
\* the value it had in every column that import resolved to None.
C9_MergedRowUpdatedNotDuplicated ==
    \A e \in Engines :
        eng[e].status = "committed" =>
            \A i \in MergesOfExisting(e) :
                LET model == eng[e].calls[i].model
                    data == eng[e].calls[i].rows[1]
                    hit == SameIdentity(committed[model], data)
                    was == eng[e].pre[model][
                               Min(SameIdentity(eng[e].pre[model], data))]
                IN  /\ Cardinality(hit) = 1
                    /\ \A k \in hit :
                          \A c \in Range(WritableColumns(model)) :
                              Attr(committed[model][k], c) =
                                  IF c \in DOMAIN data
                                  THEN Attr(data, c) ELSE Attr(was, c)

\* a second import committed a merge that changed a value of an existing row
C9_Witness ==
    \E e \in Engines :
        /\ eng[e].status = "committed"
        /\ \E i \in MergesOfExisting(e) :
              LET model == eng[e].calls[i].model
                  data == eng[e].calls[i].rows[1]
                  was == eng[e].pre[model][
                             Min(SameIdentity(eng[e].pre[model], data))]
              IN  \E c \in DOMAIN data : Attr(was, c) # Attr(data, c)

\* the source rows of a model in the snapshot of manager e
SourceRows(e, model) ==
    IF model \in DOMAIN eng[e].source.tables
    THEN eng[e].source.tables[model].rows ELSE <<>>

\* the destination rows the import of manager e left for a model: the rows
\* with the identities of its source rows, or the rows added when the store
\* assigns the primary key
ImportedRows(e, model) ==
    IF AutoPk(model) # {}
    THEN SubSeq(committed[model], Len(eng[e].pre[model]) + 1,
                Len(committed[model]))
    ELSE SelectSeq(committed[model],
                   LAMBDA row : \E i \in 1..Len(SourceRows(e, model)) :
                       Attr(SourceRows(e, model)[i], "id") = Attr(row, "id"))

\* the value the claim expects in column c of the row imported from src
RoundTripValue(e, model, src, c) ==
    IF model = "ContentNode" /\ c = "tree_id"
    THEN Some(eng[e].tree_id) ELSE Attr(src, c)

\* C10 as stated: a committed import of a snapshot in the current schema
\* leaves, for every entity type, as many destination rows as the source has,
\* equal to the source rows in every column the store does not assign,
\* except that the tree id is the one allocated id.
C10_RoundTripAllColumns ==
    \A e \in Engines :
        (eng[e].status = "committed" /\ eng[e].cls = "ChannelImport") =>
            \A model \in Range(content_models) :
                LET src == SourceRows(e, model)
                    dst == ImportedRows(e, model)
                IN  /\ Len(dst) = Len(src)
                    /\ \A i \in 1..Len(src) :
                          \A c \in Range(WritableColumns(model)) :
                              Attr(dst[i], c) =
                                  RoundTripValue(e, model, src[i], c)

\* C10 amended: the same, except that for a merge-designated entity type a
\* column whose source value is None keeps the value the destination row
\* with that identity had before the import (None when there was no row).
C10_RoundTrip ==
    \A e \in Engines :
        (eng[e].status = "committed" /\ eng[e].cls = "ChannelImport") =>
            \A model \in Range(content_models) :
                LET src == SourceRows(e, model)
                    dst == ImportedRows(e, model)
                    before(row) == SameIdentity(eng[e].pre[model], row)
                IN  /\ Len(dst) = Len(src)
                    /\ \A i \in 1..Len(src) :
                          \A c \in Range(WritableColumns(model)) :
                              Attr(dst[i], c) =
                                  IF /\ model \in merge_models
                                     /\ Attr(src[i], c) = None
                                     /\ before(src[i]) # {}
                                  THEN Attr(eng[e].pre[model][Min(before(src[i]))], c)
                                  ELSE RoundTripValue(e, model, src[i], c)

\* a committed import of a current-schema snapshot wrote hierarchical rows
\* under an allocated tree id other than the source's, and rows of a type
\* whose primary key the store assigns
C10_Witness ==
    \E e \in Engines :
        /\ eng[e].status = "committed" /\ eng[e].cls = "ChannelImport"
        /\ Len(SourceRows(e, "ContentNode")) > 1
        /\ eng[e].tree_id # SourceRows(e, "ContentNode")[1]["tree_id"]
        /\ Len(SourceRows(e, "ContentNode_tags")) > 0
        /\ Len(SourceRows(e, "LocalFile")) > 0

(***************************************************************************)
(* SpecLocalFile: generate_local_file_from_file applied to the File rows   *)
(* of a source, for every list of checksums (NULL included) up to MaxFiles.*)
(***************************************************************************)
Checksums == {Some("k1"), Some("k2"), None}

ChecksumLists == UNION {[1..n -> Checksums] : n \in 0..MaxFiles}

\* File rows with the checksums sums, in this order
FileRowsOf(sums) ==
    [j \in 1..Len(sums) |-> Row(<<"id", "checksum">>, <<Some(j), sums[j]>>)]

\* a NoVersionChannelImport whose source holds the File rows
LocalFileSelf(rows) ==
    [NoEngine EXCEPT !.status = "running", !.cls = "NoVersionChannelImport",
                     !.source = [channel_id |-> "c1",
                                 tables |-> [m \in {"File"} |->
                                     Table(<<"id", "checksum">>, rows)]]]

InitLocalFile ==
    /\ args \in {FileRowsOf(sums) : sums \in ChecksumLists}
    /\ result = <<>>
    /\ tree_ids = <<>>
    /\ found = 0
    /\ committed = EmptyTables
    /\ session = [e \in Engines |-> EmptyTables]
    /\ eng = [e \in Engines |-> NoEngine]
    /\ licenses = <<>>
    /\ imports = 0

GenerateLocalFileFromFile ==
    /\ result = <<>>
    /\ result' = <<generate_local_file_from_file(LocalFileSelf(args), None)>>
    /\ UNCHANGED <<args, tree_ids, found>>
    /\ UNCHANGED mainVars

NextLocalFile == GenerateLocalFileFromFile

SpecLocalFile == InitLocalFile /\ [][NextLocalFile]_vars

(***************************************************************************)
(* Claims about generate_local_file_from_file (SpecLocalFile).             *)
(***************************************************************************)
\* positions of the rows that are the first to carry their checksum
FirstOfChecksum(rows) ==
    {i \in 1..Len(rows) :
        \A j \in 1..(i - 1) : Attr(rows[j], "checksum") # Attr(rows[i], "checksum")}

\* C11: for any sequence of source File rows generate_local_file_from_file
\* emits exactly one row per distinct checksum, namely the first row that
\* carries it, and the emitted rows keep the order they have in the source.
C11_FirstRowPerChecksumInOrder ==
    result # <<>> =>
        LET first == SortedSeq(FirstOfChecksum(args))
        IN  /\ result[1].raised = ""
            /\ result[1].rows = [k \in 1..Len(first) |-> args[first[k]]]

\* a checksum comes back after another one: the later row is dropped
C11_Witness ==
    /\ result # <<>>
    /\ Len(result[1].rows) = 2
    /\ \E i, j, k \in 1..Len(args) :
        /\ i < j /\ j < k
        /\ Attr(args[i], "checksum") = Attr(args[k], "checksum")
        /\ Attr(args[i], "checksum") # Attr(args[j], "checksum")

(***************************************************************************)
(* Claims about the tree id of an import (Spec).                           *)
(***************************************************************************)
\* the tree ids on the ContentNode rows of a view
TreeIdsIn(view) ==
    {Attr(view["ContentNode"][i], "tree_id") : i \in 1..Len(view["ContentNode"])}

\* C12: under both ChannelImport and NoVersionChannelImport every ContentNode
\* row one import writes carries the same tree id: the one allocated when the
\* import manager was constructed, which is on no ContentNode row the
\* destination held at that time.
C12_OneFreshTreeIdPerImport ==
    \A e \in Engines :
        eng[e].cls # "None" =>
            /\ Some(eng[e].tree_id) \notin TreeIdsIn(eng[e].pre_call)
            /\ \A i \in 1..Len(NodeRowsOf(eng[e])) :
                   Attr(NodeRowsOf(eng[e])[i], "tree_id") = Some(eng[e].tree_id)
            /\ eng[e].status = "committed" =>
                   \A i \in 1..Len(ImportedRows(e, "ContentNode")) :
                       Attr(ImportedRows(e, "ContentNode")[i], "tree_id")
                           = Some(eng[e].tree_id)

\* an import into a destination that already holds a hierarchy has committed
\* two or more ContentNode rows whose source rows carried another tree id
C12_Witness ==
    \E e \in Engines :
        /\ eng[e].status = "committed"
        /\ eng[e].cls = "NoVersionChannelImport"
        /\ TreeIdsIn(eng[e].pre_call) # {}
        /\ Len(ImportedRows(e, "ContentNode")) >= 2
        /\ \E i \in 1..Len(SourceRows(e, "ContentNode")) :
               Attr(SourceRows(e, "ContentNode")[i], "tree_id")
                   # Some(eng[e].tree_id)

(***************************************************************************)
(* Claims about entity types the source does not have (Spec).              *)
(***************************************************************************)
\* the source of the import has no table for the model and the mapping of
\* the import's class names no table mapper for it
MissingInSource(self, model) ==
    /\ model \notin DOMAIN self.source.tables
    /\ LET mapping == DictGet(schema_mapping(self.cls), model).value
       IN  mapping = None \/ "per_table" \notin DOMAIN mapping[1]

\* C13: an entity type the source has no table for, with no table mapper
\* configured for it, contributes no row: nothing is buffered, inserted or
\* merged for it, and the import does not fail on it but goes on to the next
\* type and to the commit.
C13_MissingSourceTypeGivesNoRows ==
    \A e \in Engines :
        eng[e].cls # "None" =>
            LET self == eng[e]
            IN  /\ \A i \in 1..Len(self.calls) :
                       self.calls[i].model \in Range(content_models)
                           => ~MissingInSource(self, self.calls[i].model)
                /\ (self.pc = "rows" /\ MissingInSource(self, self.model))
                       => (self.records = <<>> /\ self.data_to_insert = <<>>)
                /\ (self.status = "raised" /\ self.pc \in {"model", "rows"}
                    /\ self.mi <= Len(content_models))
                       => ~MissingInSource(self, content_models[self.mi])
                /\ self.status = "committed" =>
                       \A m \in Range(content_models) :
                           MissingInSource(self, m)
                               => committed[m] = self.pre[m]

\* an import has committed rows of the types that follow one its source
\* does not have
C13_Witness ==
    \E e \in Engines :
        /\ eng[e].status = "committed"
        /\ MissingInSource(eng[e], "ContentNode_tags")
        /\ Len(ImportedRows(e, "File")) > 0
        /\ Len(ImportedRows(e, "ContentNode")) > 0

(***************************************************************************)
(* SpecConcurrent: import managers constructed against one destination     *)
(* while another import is under way.  A manager's session reads the       *)
(* committed contents until its first write; the store admits one writing  *)
(* transaction at a time, and a manager that uses the store meanwhile      *)
(* waits or gets the store's error.  Store failures of other kinds are     *)
(* explored in Spec.                                                       *)
(***************************************************************************)
ConcurrentSnapshotParams ==
    {Param("current", VERSION_2, ch, <<1, 1>>, "a", "ok", 1) : ch \in Channels}
    \cup {Param("current", VERSION_2, "c1", <<1, 1>>, "b", "ok", 2)}

ConcurrentSnapshots == {Snapshot(p) : p \in ConcurrentSnapshotParams}

\* the call of import_channel_from_local_db that made manager d has not
\* returned
InProgress(d) == eng[d].status \in {"running", "committed"}

\* SpecConcurrent has two calls in progress at a time: a further one starts
\* when one of them has returned
RoomForCall == Cardinality({d \in Engines : InProgress(d)}) <= 1

\* each import manager keeps its own slot
UnusedSlot(e) ==
    /\ eng[e].status = "free"
    /\ \A d \in Engines : d < e => eng[d].status # "free"

\* the session of manager e holds writes that are not committed (lines 207,
\* 217 and 222)
Writing(e) ==
    /\ eng[e].status = "running"
    /\ \E i \in 1..Len(eng[e].calls) :
           eng[e].calls[i].op \in {"merge", "bulk_insert_mappings"}

\* another transaction is writing
Locked(e) == \E d \in Engines \ {e} : Writing(d)

\* manager e can take its next step: no other transaction is writing, and
\* its session reads the committed contents unless it has written itself
MayRun(e) ==
    /\ ~Locked(e)
    /\ Writing(e) \/ session[e] = committed

\* a session that has not written reads what has been committed since
Refresh(e) ==
    /\ eng[e].status = "running" /\ ~Writing(e)
    /\ session[e] # committed
    /\ session' = [session EXCEPT ![e] = committed]
    /\ UNCHANGED <<committed, eng, licenses, imports>>

NextConcurrent ==
    \/ \E e \in Engines, snap \in ConcurrentSnapshots :
            /\ RoomForCall /\ UnusedSlot(e)
            /\ InitializeImportManager(e, snap) /\ UNCHANGED treeVars
    \/ \E e \in Engines : Refresh(e) /\ UNCHANGED treeVars
    \/ \E e \in Engines :
            MayRun(e) /\ ImportChannelFromLocalDb(e) /\ UNCHANGED treeVars
    \/ \E e \in Engines : MayRun(e) /\ BeginImport(e) /\ UNCHANGED treeVars
    \/ \E e \in Engines : MayRun(e) /\ BeginTable(e) /\ UNCHANGED treeVars
    \/ \E e \in Engines : MayRun(e) /\ ProcessRow(e) /\ UNCHANGED treeVars
    \/ \E e \in Engines : MayRun(e) /\ EndTable(e) /\ UNCHANGED treeVars
    \/ \E e \in Engines : MayRun(e) /\ Commit(e) /\ UNCHANGED treeVars
    \/ \E e \in Engines, on_disk \in BOOLEAN :
            ~Locked(e) /\ AfterImport(e, on_disk) /\ UNCHANGED treeVars
    \/ \E e \in Engines : Locked(e) /\ StoreError(e) /\ UNCHANGED treeVars

SpecConcurrent == Init /\ [][NextConcurrent]_vars

(***************************************************************************)
(* Claims about concurrent imports (SpecConcurrent).                       *)
(***************************************************************************)
\* the ContentNode rows manager d committed were in the destination when
\* manager e was constructed
ConstructedAfterCommitOf(e, d) ==
    /\ eng[d].status \in {"committed", "finished"}
    /\ \E i \in 1..Len(eng[e].pre_call["ContentNode"]) :
        LET row == eng[e].pre_call["ContentNode"][i]
        IN  /\ Attr(row, "tree_id") = Some(eng[d].tree_id)
            /\ \E j \in 1..Len(SourceRows(d, "ContentNode")) :
                   Attr(SourceRows(d, "ContentNode")[j], "id") = Attr(row, "id")

\* C14: two import managers constructed against the same destination
\* contents - neither had committed when the other was constructed -
\* allocate the same tree id, so that after both commit two hierarchies
\* share it; a manager constructed after another one committed its
\* hierarchy has a tree id different from that one's.
C14_SameTreeIdOnlyWithoutCommitBetween ==
    \A d, e \in Engines :
        (d # e /\ eng[d].cls # "None" /\ eng[e].cls # "None") =>
            /\ TreeIdsIn(eng[d].pre_call) = TreeIdsIn(eng[e].pre_call)
                   => eng[d].tree_id = eng[e].tree_id
            /\ ConstructedAfterCommitOf(e, d)
                   => eng[d].tree_id # eng[e].tree_id

\* both managers were constructed before either committed, both have
\* committed, and the hierarchies of two channels carry one tree id
C14_Witness ==
    \E d, e \in Engines :
        /\ d # e
        /\ eng[d].status = "committed" /\ eng[e].status = "committed"
        /\ eng[d].channel_id # eng[e].channel_id
        /\ eng[d].pre_call = eng[e].pre_call
        /\ eng[d].tree_id = eng[e].tree_id
        /\ \A ch \in {eng[d].channel_id, eng[e].channel_id} :
            \E i \in 1..Len(committed["ContentNode"]) :
                /\ Attr(committed["ContentNode"][i], "channel_id") = Some(ch)
                /\ Attr(committed["ContentNode"][i], "tree_id")
                       = Some(eng[d].tree_id)

(***************************************************************************)
(* Claims about the commit of an import (Spec).                            *)
(***************************************************************************)
\* the records table_import iterates over for a model (lines 194-202)
RecordsOf(self, model) ==
    LET mapping == DictGet(schema_mapping(self.cls), model).value
        table_map == IF mapping # None /\ "per_table" \in DOMAIN mapping[1]
                     THEN Some(mapping[1].per_table) ELSE None
    IN  CallTableMapper(self, generate_table_mapper(self, table_map).name,
                        SourceGetClass(self.source, model).table).rows

\* the position of a model in content_models
ModelIndex(model) == CHOOSE i \in 1..Len(content_models) : content_models[i] = model

\* the positions in the call log of the writes of rows
WritesOf(self) ==
    {i \in 1..Len(self.calls) :
        self.calls[i].op \in {"merge", "bulk_insert_mappings"}}

\* every model of content_models has had all its records written, and the
\* writes follow the order of content_models
AllAppliedInOrder(self) ==
    /\ \A m \in Range(content_models) :
           Len(RowsOf(CallsOf(self, "merge", m)))
           + Len(RowsOf(CallsOf(self, "bulk_insert_mappings", m)))
               = Len(RecordsOf(self, m))
    /\ \A i, j \in WritesOf(self) :
           i < j => ModelIndex(self.calls[i].model)
                        <= ModelIndex(self.calls[j].model)

CommitsOf(self) == {i \in 1..Len(self.calls) : self.calls[i].op = "commit"}

\* import_channel_data has committed
HasCommitted(self) ==
    self.status \in {"committed", "finished", "raised_after"}

ImportEnded(e) == HasCommitted(eng[e]) \/ eng[e].status = "raised"

\* what holds of the commit in every state of an import
CommitDiscipline(e) ==
    LET self == eng[e]
    IN  /\ Cardinality(CommitsOf(self)) <= 1
        /\ HasCommitted(self) <=> CommitsOf(self) # {}
        /\ self.status = "committed" =>
               /\ CommitsOf(self) = {Len(self.calls)}
               /\ AllAppliedInOrder(self)
               /\ committed = session[e]
        /\ (self.pc \in {"model", "rows"} /\ self.status # "committed")
               => committed = self.pre

\* C15: import_channel_data ends in one of two ways: with one commit, issued
\* after every model of content_models had all its rows written in
\* declaration order and as the last call of the import, or with a failure,
\* the destination holding what it held before.  No commit takes effect
\* before the rows of the last model are written and none is issued twice.
C15_OneCommitAfterAllOrNone ==
    \A e \in Engines :
        eng[e].cls # "None" =>
            /\ CommitDiscipline(e)
            /\ eng[e].pc = "done" => ImportEnded(e) \/ eng[e].status = "cancelled"

\* an import has committed after flushes and writes of all five models
C15_Witness ==
    \E e \in Engines :
        /\ eng[e].status = "committed"
        /\ Len(CallsOf(eng[e], "flush", "")) >= 2
        /\ \A m \in Range(content_models) : Len(RecordsOf(eng[e], m)) > 0

(***************************************************************************)
(* SpecMapper: the row mapper of generate_row_mapper and the row           *)
(* table_import builds with it, applied to one source row of               *)
(* ContentNode_tags under every combination of rules, source columns and   *)
(* NULLs below.                                                            *)
(***************************************************************************)
\* what a rule can name: a source column, procedures, a data attribute of
\* the import manager, nothing
RuleNames == {"other", "get_tree_id", "get_none", "tree_id", "bogus"}

\* the attributes of the source row's class
SourceColumnSets ==
    {{"contentnode_id", "contenttag_id"},
     {"contentnode_id", "other"},
     {"contentnode_id", "other", "get_tree_id"},
     {"contentnode_id", "tree_id"}}

\* the mappings argument of generate_row_mapper (lines 133-136)
RuleSets ==
    UNION {[cs -> RuleNames] : cs \in SUBSET {"contentnode_id", "contenttag_id"}}

\* a source row: the value of a column is its name, a NULL column is absent
RecordsOver(columns) == {[c \in cs |-> c] : cs \in SUBSET columns}

\* an import manager of class cls
MapperSelf(cls) ==
    [NoEngine EXCEPT !.status = "running", !.cls = cls, !.channel_id = "c1",
                     !.tree_id = 5]

InitMapper ==
    /\ args \in {[cls |-> cls, per_row |-> per_row, src_columns |-> columns,
                  record |-> record] :
                    cls \in {"ChannelImport", "NoVersionChannelImport"},
                    per_row \in RuleSets,
                    columns \in SourceColumnSets,
                    record \in UNION {RecordsOver(cs) : cs \in SourceColumnSets}}
    /\ DOMAIN args.record \subseteq args.src_columns
    /\ result = <<>>
    /\ tree_ids = <<>>
    /\ found = 0
    /\ committed = EmptyTables
    /\ session = [e \in Engines |-> EmptyTables]
    /\ eng = [e \in Engines |-> NoEngine]
    /\ licenses = <<>>
    /\ imports = 0

\* row_mapper(record, column) for each writable column, and the row of
\* lines 203-205
ApplyMapper ==
    /\ result = <<>>
    /\ LET self == MapperSelf(args.cls)
           columns == WritableColumns("ContentNode_tags")
       IN  result' =
             <<[values |-> [c \in Range(columns) |->
                              mapper(self, <<>>, args.per_row, args.src_columns,
                                     args.record, c)],
                row |-> MapRow(self, <<>>, args.per_row, args.src_columns,
                               args.record, "ContentNode_tags")]>>
    /\ UNCHANGED <<args, tree_ids, found>>
    /\ UNCHANGED mainVars

NextMapper == ApplyMapper

SpecMapper == InitMapper /\ [][NextMapper]_vars

(***************************************************************************)
(* Claims about the row mapper (SpecMapper).                               *)
(***************************************************************************)
\* the methods of a class that take a source row
ProceduresOf(cls) ==
    {"get_tree_id"} \cup
    (IF cls = "NoVersionChannelImport"
     THEN {"get_none", "infer_channel_id_from_source",
           "set_version_to_no_version", "get_license", "get_license_name",
           "get_license_description"}
     ELSE {})

\* what the claim expects of column c: the failure, or the value
ResolvedAsClaimed(c) ==
    IF c \notin DOMAIN args.per_row
    THEN [raised |-> "", value |-> Attr(args.record, c)]
    ELSE IF args.per_row[c] \in args.src_columns
    THEN [raised |-> "", value |-> Attr(args.record, args.per_row[c])]
    ELSE IF args.per_row[c] \in ProceduresOf(args.cls)
    THEN [raised |-> "",
          value |-> IF args.per_row[c] = "get_tree_id"
                    THEN Some(MapperSelf(args.cls).tree_id) ELSE None]
    ELSE [raised |-> "AttributeError", value |-> None]

\* C16: the row mapper gives, for every row and column: with no rule the
\* source row's value of the column or nothing; with a rule naming an
\* attribute of the source row that attribute's value, also when the name is
\* a procedure of the import manager too; with a rule naming only a
\* procedure of the manager the procedure's result on the row; with a rule
\* naming neither an AttributeError.  A column whose value is None is left
\* out of the destination row.
C16_RowMapperResolution ==
    result # <<>> =>
        LET values == result[1].values
            row == result[1].row
        IN  /\ \A c \in DOMAIN values :
                   /\ values[c].raised = ResolvedAsClaimed(c).raised
                   /\ values[c].value = ResolvedAsClaimed(c).value
            /\ row.raised = "" =>
                   /\ DOMAIN row.data = {c \in DOMAIN values : values[c].value # None}
                   /\ \A c \in DOMAIN row.data : Some(row.data[c]) = values[c].value
            /\ row.raised # "" <=> \E c \in DOMAIN values : values[c].raised # ""

(***************************************************************************)
(* Claims about import_channel_from_local_db (Spec).                       *)
(***************************************************************************)
\* C17: when import_channel_data fails inside import_channel_from_local_db,
\* the committed contents of the destination are those from before
\* import_channel_from_local_db was called, also when the destination held
\* an older version of the channel.
C17_FailedCallLeavesDestinationUnchanged ==
    \A e \in Engines : ImportFailed(e) => committed = eng[e].pre_call

(***************************************************************************)
(* Claims about the end of a table (Spec).                                 *)
(***************************************************************************)
\* C18: when the rows of a model that is not merged are through, every
\* source row has gone to the destination in exactly one bulk insert, in
\* source order, before a row of the next model is processed: the next model
\* starts with an empty buffer, and with the counter the last one left.
C18_TableFullyInsertedBeforeNext ==
    \A e \in Engines :
        LET self == eng[e]
        IN  /\ (TableDone(e) /\ ~self.merge) =>
                   /\ RowsOf(CallsOf(self, "bulk_insert_mappings", self.model))
                          = MappedRecords(self)
                   /\ \A i \in WritesOf(self) :
                          ModelIndex(self.calls[i].model) < self.mi
            /\ (self.status = "running" /\ self.pc = "rows") =>
                   /\ self.ri = 1 =>
                          /\ self.data_to_insert = <<>>
                          /\ self.unflushed_rows = self.start_rows
                   /\ \A i \in 1..Len(self.data_to_insert) :
                          self.data_to_insert[i] \in
                              {MapRow(self, licenses, self.per_row,
                                      self.src_columns, self.records[j],
                                      self.model).data :
                                  j \in 1..(self.ri - 1)}

\* a model starts with a counter that is not zero and an empty buffer, the
\* rows of the model before it - fewer than the threshold - bulk-inserted
C18_Witness ==
    \E e \in Engines :
        /\ eng[e].status = "running" /\ eng[e].pc = "rows" /\ eng[e].ri = 1
        /\ eng[e].start_rows > 0
        /\ Len(eng[e].records) > 0
        /\ eng[e].mi > 1
        /\ LET before == CallsOf(eng[e], "bulk_insert_mappings",
                                 content_models[eng[e].mi - 1])
           IN  /\ Len(before) = 1
               /\ Len(before[1].rows) = eng[e].start_rows

(***************************************************************************)
(* Claims about the flush counter (Spec).                                  *)
(***************************************************************************)
\* the number of rows import_channel_data has processed so far, over all
\* models: those merged, those bulk-inserted and those in the buffer
RowsProcessed(self) ==
    Cardinality({i \in 1..Len(self.calls) : self.calls[i].op = "merge"})
    + Len(RowsOf(SelectSeq(self.calls,
                           LAMBDA c : c.op = "bulk_insert_mappings")))
    + (IF self.pc = "rows" /\ ~self.merge THEN Len(self.data_to_insert) ELSE 0)

\* C19: the flush counter is one value for all models: each processed row,
\* merged or not, adds one, it goes back to zero only on reaching the
\* threshold and not where one model ends and the next starts.  So after
\* every processed row it is at least 0 and below the threshold, and the
\* rows in the buffer of the current model are never more than the counter.
C19_SharedFlushCounter ==
    \A e \in Engines :
        LET self == eng[e]
        IN  (self.status = "running" /\ self.pc \in {"model", "rows"}) =>
                /\ self.unflushed_rows = RowsProcessed(self) % FlushThreshold
                /\ 0 <= self.unflushed_rows
                /\ self.unflushed_rows < FlushThreshold
                /\ self.pc = "rows" =>
                       Len(self.data_to_insert) <= self.unflushed_rows
                /\ Len(CallsOf(self, "flush", ""))
                       = RowsProcessed(self) \div FlushThreshold

\* rows of a merged model and of a model that is not merged have counted
\* towards one flush, and the counter went on into the next model
C19_Witness ==
    \E e \in Engines :
        /\ eng[e].status = "running" /\ eng[e].pc = "rows"
        /\ eng[e].unflushed_rows > 0
        /\ eng[e].start_rows > 0
        /\ Len(CallsOf(eng[e], "flush", "")) >= 1
        /\ \E i \in 1..Len(eng[e].calls) : eng[e].calls[i].op = "merge"
        /\ ~eng[e].merge
        /\ Len(eng[e].data_to_insert) < eng[e].unflushed_rows

(***************************************************************************)
(* Claims about primary keys the store assigns (Spec).                     *)
(***************************************************************************)
\* the columns of a destination model that are auto-incrementing integer
\* primary keys
AutoIntegerPk(model) ==
    {dest_table[model][i].name : i \in
        {j \in 1..Len(dest_table[model]) :
            /\ dest_table[model][j].primary_key
            /\ dest_table[model][j].python_type = "int"
            /\ dest_table[model][j].autoincrement = "auto"}}

\* C20: no row table_import hands to the destination, in a bulk insert or a
\* merge or still in the buffer, has a value for an auto-incrementing
\* integer primary key column of its model, also when the source row has a
\* value in that column.
C20_NoAutoIntegerPkWritten ==
    \A e \in Engines :
        LET self == eng[e]
        IN  /\ \A i \in WritesOf(self) :
                   \A k \in 1..Len(self.calls[i].rows) :
                       DOMAIN self.calls[i].rows[k]
                           \cap AutoIntegerPk(self.calls[i].model) = {}
            /\ self.pc = "rows" =>
                   \A k \in 1..Len(self.data_to_insert) :
                       DOMAIN self.data_to_insert[k]
                           \cap AutoIntegerPk(self.model) = {}

\* rows of ContentNode_tags were bulk-inserted from source rows that carry
\* an id
C20_Witness ==
    \E e \in Engines :
        /\ \E i \in WritesOf(eng[e]) :
               /\ eng[e].calls[i].model = "ContentNode_tags"
               /\ Len(eng[e].calls[i].rows) > 0
        /\ AutoIntegerPk("ContentNode_tags") = {"id"}
        /\ \A j \in 1..Len(SourceRows(e, "ContentNode_tags")) :
               "id" \in DOMAIN SourceRows(e, "ContentNode_tags")[j]

(***************************************************************************)
(* Claims about an import of a channel the destination holds (Spec).       *)
(***************************************************************************)
\* the metadata row of the manager's channel the destination held when
\* import_channel_from_local_db was called, if any
HeldBefore(self) ==
    LET existing == ExistingChannel(self.pre_call, self.channel_id)
    IN  IF existing = {} THEN None
        ELSE Some(self.pre_call["ChannelMetadata"][Min(existing)])

\* C21: when the destination already holds the channel at a version greater
\* than or equal to the snapshot's, import_channel_from_local_db leaves the
\* destination as it was: nothing is deleted, no row is imported,
\* availability is not recomputed and last_updated is not stamped.  The old
\* content is removed and the import run only when the version held is
\* strictly lower.
C21_SameOrNewerVersionIsNoOp ==
    \A e \in Engines :
        LET self == eng[e]
            held == HeldBefore(self)
        IN  (self.cls # "None" /\ self.pc # "init") =>
                /\ self.status = "cancelled" <=>
                       (held # None /\ held[1].version >= self.channel_version)
                /\ self.status = "cancelled" =>
                       (committed = self.pre_call /\ self.calls = <<>>)
                /\ (\E i \in 1..Len(self.calls) : self.calls[i].op = "delete")
                       <=> (held # None /\ held[1].version < self.channel_version)
                /\ (held # None /\ held[1].version < self.channel_version
                    /\ self.pc # "import") =>
                       /\ ExistingChannel(self.pre, self.channel_id) = {}
                       /\ ChannelNodeIds(self.pre, self.channel_id) = {}

\* the import of a channel is cancelled: an earlier import of the same
\* version had been finished, stamped and flagged
C21_Witness ==
    \E e \in Engines :
        /\ eng[e].status = "cancelled"
        /\ HeldBefore(eng[e])[1].version = eng[e].channel_version
        /\ "last_updated" \in DOMAIN HeldBefore(eng[e])[1]
        /\ ChannelNodeIds(committed, eng[e].channel_id) # {}
        /\ \E i \in 1..Len(committed["ContentNode"]) :
               Attr(committed["ContentNode"][i], "available") = Some(TRUE)

====
